---- MODULE Spec2Model ----
(***************************************************************************)
(* Route-planning engine of the shade-aware pedestrian router:             *)
(*   backend/combine_graph_shade.py  the offline per-hour shade merge      *)
(*   backend/app.py                  the route queries over the graph G    *)
(*   backend/build_graph_2.py        the segment graph (nodes, weights)    *)
(*                                                                         *)
(* Numbers.  Lengths are metres, as integers.  A shade fraction is a       *)
(* fixed-point number counted in units of 1/FracUnit, so FracUnit stands   *)
(* for the float 1.0; every base weight is a multiple of FracUnit, which   *)
(* keeps shade_fraction * weight exact.                                    *)
(*                                                                         *)
(* Dicts.  A Python dict with string keys is a function whose domain is a  *)
(* set of strings; the per-hour attribute names are built as the code      *)
(* builds them, by string interpolation of the hour.                       *)
(***************************************************************************)
EXTENDS Integers, Sequences, FiniteSets, TLC

VARIABLES
    fs,              \* the artifact files: path -> NoFile or Pickled(graph)
    clock,           \* the time datetime.now() last returned
    pc,              \* per merge process: where main() stands
    args,            \* per merge process: the parsed command line
    graph,           \* per merge process: main()'s local `graph`
    shade_data,      \* per merge process: main()'s local `shade_data`
    enhanced_graph,  \* per merge process: main()'s local `enhanced_graph`
    response,        \* per merge process: what input() returned, if asked
    rc,              \* per merge process: main()'s return code
    fs0,             \* per merge process: the files when its run began
    G,               \* app.py's global graph
    app,             \* the server: down, starting, idle, handling, replied
    request,         \* the route query being handled
    temp_graph,      \* the graph the shade-aware handler searched, if any
    reply            \* the reply to it

vars == <<fs, clock, pc, args, graph, shade_data, enhanced_graph, response,
          rc, fs0, G, app, request, temp_graph,
          reply>>

mergeVars == <<fs, clock, pc, args, graph, shade_data, enhanced_graph,
               response, rc, fs0>>

routeVars == <<G, app, request, temp_graph, reply>>

-----------------------------------------------------------------------------
(* Bounds of the model                                                     *)

\* Runs of main() that reach update_graph_metadata in one behaviour.
MaxRuns == 2

\* Nodes of the segment graph.
NumNodes == 6

-----------------------------------------------------------------------------
(* Values                                                                  *)

\* The float 1.0 of a shade fraction (fractions count in 1/FracUnit).
FracUnit == 2

None == "None"

\* app.py's G before a graph is loaded (G = None).
NoGraph == <<>>

\* A path holds no file, or the one pickled graph last dumped to it.
NoFile == <<>>

Pickled(g) == <<g>>

Unpickled(file) == file[1]

\* A file that is there and holds no pickled graph: pickle.load() raises
\* on it, or returns an object without number_of_nodes().
Malformed == <<[malformed |-> TRUE]>>

Hours == 0..23

\* dict[key] = value
DictSet(d, key, value) == (key :> value) @@ d

\* dict.get(key, default)
DictGet(d, key, default) == IF key \in DOMAIN d THEN d[key] ELSE default

-----------------------------------------------------------------------------
(* networkx.Graph, as far as the program uses it.  A graph is              *)
(*   nodes  the nodes in insertion order (the order of G.nodes()),         *)
(*   adj    for each node its neighbours in insertion order (G._adj),      *)
(*   data   the attribute dict of each edge, keyed by its two end points,  *)
(*   graph  the graph-level attribute dict G.graph.                        *)

EmptyGraph == [nodes |-> <<>>, adj |-> <<>>, data |-> <<>>, graph |-> <<>>]

InSeq(seq, x) == \E i \in 1..Len(seq) : seq[i] = x

AppendNew(seq, x) == IF InSeq(seq, x) THEN seq ELSE Append(seq, x)

\* G.add_node(n)
add_node(g, n) ==
    IF InSeq(g.nodes, n) THEN g
    ELSE [g EXCEPT !.nodes = Append(@, n), !.adj = DictSet(@, n, <<>>)]

\* G.add_edge(u, v, **attrs): both nodes are added if new, the edge's dict
\* is the one already there (or a new one) updated with attrs.
add_edge(g, u, v, attrs) ==
    LET g1 == add_node(add_node(g, u), v)
        old == DictGet(g1.data, {u, v}, <<>>)
    IN  [g1 EXCEPT
            !.adj = [n \in DOMAIN g1.adj |->
                        IF n = u /\ n = v THEN AppendNew(g1.adj[n], n)
                        ELSE IF n = u THEN AppendNew(g1.adj[n], v)
                        ELSE IF n = v THEN AppendNew(g1.adj[n], u)
                        ELSE g1.adj[n]],
            !.data = DictSet(@, {u, v}, attrs @@ old)]

\* G.edges(data=True): for each node in order, its neighbours in order,
\* leaving out the neighbours whose own turn has passed.
RECURSIVE EdgesFrom(_, _)
EdgesFrom(g, k) ==
    IF k > Len(g.nodes) THEN <<>>
    ELSE LET n == g.nodes[k]
             nbrs == SelectSeq(g.adj[n],
                         LAMBDA w : ~\E j \in 1..(k - 1) : g.nodes[j] = w)
         IN  [i \in 1..Len(nbrs) |-> [u |-> n, v |-> nbrs[i]]]
             \o EdgesFrom(g, k + 1)

Edges(g) == EdgesFrom(g, 1)

\* The attribute dict of edge e of Edges(g).
Attrs(g, e) == g.data[{e.u, e.v}]

number_of_edges(g) == Len(Edges(g))

-----------------------------------------------------------------------------
(* The segment graph (build_graph_2.py)                                    *)

\* A node is its (lon, lat) pair.
Node(k) == <<k, k % 2>>

\* The segments of the street network in the order the builder meets them:
\* the block 1 - 2 - 3 with its diagonal 1 - 3, a street 3 - 4 - ... that
\* comes back to 1 and, apart from them, the segment between the last two
\* nodes.
Segments ==
    <<[a |-> Node(2), b |-> Node(3), length_m |-> 2 * FracUnit],
      [a |-> Node(1), b |-> Node(3), length_m |-> 3 * FracUnit],
      [a |-> Node(1), b |-> Node(2), length_m |-> 2 * FracUnit]>>
    \o [i \in 1..(NumNodes - 5) |->
           [a |-> Node(i + 2), b |-> Node(i + 3), length_m |-> 2 * FracUnit]]
    \o <<[a |-> Node(NumNodes - 2), b |-> Node(1),
          length_m |-> 2 * FracUnit],
         [a |-> Node(NumNodes - 1), b |-> Node(NumNodes),
          length_m |-> 2 * FracUnit]>>

\* _add_segment_edge: a segment of length 0 is dropped, the others become
\* an edge with its weight and geometry.
add_segment_edge(g, s) ==
    IF s.a = s.b THEN g
    ELSE add_edge(g, s.a, s.b,
                  ("weight" :> s.length_m) @@ ("geometry" :> <<s.a, s.b>>))

RECURSIVE build_graph_segments(_)
build_graph_segments(segs) ==
    IF segs = <<>> THEN EmptyGraph
    ELSE add_segment_edge(build_graph_segments(SubSeq(segs, 1, Len(segs) - 1)),
                          segs[Len(segs)])

\* The graph saved as graph_segments.gpickle.
BaseGraph == build_graph_segments(Segments)

NumEdges == number_of_edges(BaseGraph)

-----------------------------------------------------------------------------
(* nx.Graph.copy(): a new graph with the same nodes, then the edges added  *)
(* again, node by node and neighbour by neighbour, each with a copy of its *)
(* attribute dict; the graph-level dict is a new dict holding the same     *)
(* values.  `aliases` names what the copy still shares with the original.  *)

\* The mutable containers stored in G.graph: the list of hours.
SharedContainers(g) == {"shade_analysis_hours"} \cap DOMAIN g.graph

RECURSIVE CopyNodes(_, _, _)
CopyNodes(new, g, k) ==
    IF k > Len(g.nodes) THEN new
    ELSE CopyNodes(add_node(new, g.nodes[k]), g, k + 1)

RECURSIVE CopyEdges(_, _, _, _)
CopyEdges(new, g, k, j) ==
    IF k > Len(new.nodes) THEN new
    ELSE IF j > Len(g.adj[g.nodes[k]]) THEN CopyEdges(new, g, k + 1, 1)
    ELSE LET u == g.nodes[k]
             v == g.adj[u][j]
         IN  CopyEdges(add_edge(new, u, v, g.data[{u, v}]), g, k, j + 1)

\* A plausible slip: no copy at all, the "copy" is the graph itself.
GraphCopyIsAlias(g) ==
    [value |-> g, aliases |-> {"data", "graph"}]

GraphCopy(g) ==
    [value |-> [CopyEdges(CopyNodes(EmptyGraph, g, 1), g, 1, 1)
                   EXCEPT !.graph = g.graph],
     aliases |-> SharedContainers(g)]

\* The original graph as it reads after its copy was written to and became
\* `new`: what the two share follows the write.
ThroughAliases(orig, new, aliases) ==
    [orig EXCEPT
        !.data = IF "data" \in aliases THEN new.data ELSE @,
        !.graph = IF "graph" \in aliases
                  THEN new.graph
                  ELSE [k \in DOMAIN @ |->
                           IF k \in aliases /\ k \in DOMAIN new.graph
                           THEN new.graph[k] ELSE @[k]]]

-----------------------------------------------------------------------------
(* combine_graph_shade.py                                                  *)

\* One plausible slip: a 12-hour clock suffix, as the module docstring's
\* "shade_fraction_Xam/pm" suggests.
format_hour_suffix_12h(hour) == ToString(hour % 12)

format_hour_suffix(hour) == ToString(hour)

shade_fraction_attr(hour) == "shade_fraction_" \o format_hour_suffix(hour)
shade_length_attr(hour) == "shade_length_" \o format_hour_suffix(hour)
shade_samples_attr(hour) == "shade_samples_" \o format_hour_suffix(hour)
is_shaded_attr(hour) == "is_shaded_" \o format_hour_suffix(hour)

\* A plausible slip: the edges are counted from 1 (enumerate(..., start=1)).
edge_id_from_one(i) == "edge_" \o ToString(i + 1)

\* f"edge_{i}" of the merge (line 88): the id of the i-th edge (0-based).
edge_id(i) == "edge_" \o ToString(i)

\* load_shade_analysis: the JSON's edge list as a dict keyed by id; a later
\* entry with the same id replaces an earlier one.
RECURSIVE load_shade_analysis(_)
load_shade_analysis(edgeList) ==
    IF edgeList = <<>>
    THEN <<>>
    ELSE LET n == Len(edgeList)
             last == edgeList[n]
         IN  DictSet(load_shade_analysis(SubSeq(edgeList, 1, n - 1)),
                     last.id,
                     [shade_fraction |-> last.shadePct,
                      shaded |-> last.shaded,
                      samples |-> last.nSamples])

\* input(...).strip().lower() on the answers the model offers.
StripLower(answer) ==
    CASE answer = "Y"   -> "y"
      [] answer = " y " -> "y"
      [] answer = "N"   -> "n"
      [] OTHER          -> answer

\* The check of lines 77-78: the first edge of the graph has the attribute.
SampleHasHour(g, hour) ==
    /\ Edges(g) # <<>>
    /\ shade_fraction_attr(hour) \in DOMAIN Attrs(g, Edges(g)[1])

\* Whether enhance_graph_with_shade asks before it writes.
Prompts(g, hour) == SampleHasHour(g, hour)

\* A plausible slip: the merge also takes the shaded length off the edge's
\* weight.
AnalysisAttrsAdjustWeight(attrs, info, hour) ==
    LET shade_fraction == info.shade_fraction
        edge_weight == DictGet(attrs, "weight", 0)
        shade_length == (shade_fraction * edge_weight) \div FracUnit
    IN  DictSet(DictSet(DictSet(DictSet(DictSet(attrs,
            shade_fraction_attr(hour), shade_fraction),
            shade_length_attr(hour), shade_length),
            shade_samples_attr(hour), info.samples),
            is_shaded_attr(hour), info.shaded),
            "weight", edge_weight - shade_length)

\* A plausible slip: the sample count is added to the one already stored.
AnalysisAttrsAddSamples(attrs, info, hour) ==
    LET shade_fraction == info.shade_fraction
        edge_weight == DictGet(attrs, "weight", 0)
        shade_length == (shade_fraction * edge_weight) \div FracUnit
    IN  DictSet(DictSet(DictSet(DictSet(attrs,
            shade_fraction_attr(hour), shade_fraction),
            shade_length_attr(hour), shade_length),
            shade_samples_attr(hour),
                DictGet(attrs, shade_samples_attr(hour), 0) + info.samples),
            is_shaded_attr(hour), info.shaded)

\* Lines 90-105: the record written for an edge the analysis names.
AnalysisAttrs(attrs, info, hour) ==
    LET shade_fraction == info.shade_fraction
        edge_weight == DictGet(attrs, "weight", 0)
        shade_length == (shade_fraction * edge_weight) \div FracUnit
    IN  DictSet(DictSet(DictSet(DictSet(attrs,
            shade_fraction_attr(hour), shade_fraction),
            shade_length_attr(hour), shade_length),
            shade_samples_attr(hour), info.samples),
            is_shaded_attr(hour), info.shaded)

\* A plausible slip: the defaults are written whether or not the edge
\* already has the hour's record.
DefaultAttrsAlways(attrs, hour) ==
    DictSet(DictSet(DictSet(DictSet(attrs,
        shade_fraction_attr(hour), 0),
        shade_length_attr(hour), 0),
        shade_samples_attr(hour), 0),
        is_shaded_attr(hour), FALSE)

\* A plausible slip: an edge the analysis does not name is left as it is.
DefaultAttrsNone(attrs, hour) == attrs

\* Lines 112-121: the defaults, only if the hour's record is not there.
DefaultAttrs(attrs, hour) ==
    IF shade_fraction_attr(hour) \notin DOMAIN attrs
    THEN DictSet(DictSet(DictSet(DictSet(attrs,
            shade_fraction_attr(hour), 0),
            shade_length_attr(hour), 0),
            shade_samples_attr(hour), 0),
            is_shaded_attr(hour), FALSE)
    ELSE attrs

\* Lines 87-121: the loop over enumerate(enhanced_graph.edges(data=True)),
\* from its i-th round (1-based) on; the edge of round i is "edge_<i-1>".
RECURSIVE EnhanceEdges(_, _, _, _)
EnhanceEdges(g, shadeData, hour, i) ==
    IF i > Len(Edges(g)) THEN g
    ELSE LET e == Edges(g)[i]
             edge_attrs == Attrs(g, e)
             written == IF edge_id(i - 1) \in DOMAIN shadeData
                        THEN AnalysisAttrs(edge_attrs,
                                           shadeData[edge_id(i - 1)], hour)
                        ELSE DefaultAttrs(edge_attrs, hour)
         IN  EnhanceEdges([g EXCEPT !.data[{e.u, e.v}] = written],
                          shadeData, hour, i + 1)

\* A plausible slip: the answer is not looked at and the merge proceeds.
EnhancedValueNoAsk(g, shadeData, hour, answer) ==
    EnhanceEdges(g, shadeData, hour, 1)

\* enhance_graph_with_shade: the value of the graph it returns, `g` being
\* the copy it made and `answer` what input() returned when it asked.
EnhancedValue(g, shadeData, hour, answer) ==
    IF Prompts(g, hour) /\ StripLower(answer) # "y"
    THEN g
    ELSE EnhanceEdges(g, shadeData, hour, 1)

\* A plausible slip: the hour is appended and the list is left as it is.
AppendUnsorted(list, hour) == Append(list, hour)

\* list.append(hour); list.sort()
RECURSIVE SortedInsert(_, _)
SortedInsert(list, hour) ==
    IF list = <<>> THEN <<hour>>
    ELSE IF hour <= Head(list) THEN <<hour>> \o list
    ELSE <<Head(list)>> \o SortedInsert(Tail(list), hour)

\* update_graph_metadata: the graph-level dict after the call at time `now`.
UpdatedMetadata(meta, hour, now) ==
    LET m1 == IF "shade_analysis_hours" \notin DOMAIN meta
              THEN DictSet(DictSet(DictSet(meta,
                       "shade_analysis_hours", <<>>),
                       "shade_analysis_added", TRUE),
                       "shade_enhanced_at", now)
              ELSE meta
        m2 == IF ~InSeq(m1["shade_analysis_hours"], hour)
              THEN DictSet(m1, "shade_analysis_hours",
                       SortedInsert(m1["shade_analysis_hours"], hour))
              ELSE m1
        m3 == DictSet(m2, "shade_last_enhanced_at", now)
    IN  DictSet(m3,
            "shade_analysis_" \o format_hour_suffix(hour) \o "_added_at", now)

-----------------------------------------------------------------------------
(* The inputs of the merge tool                                            *)

ORIGINAL == "data/graph_segments.gpickle"

ENHANCED == "data/graph_segments_with_shade.gpickle"

Paths == {ORIGINAL, ENHANCED}

\* The hours given on the command line; 24 is refused by main().
ArgHours == {9, 21, 24}

\* What the operator may type at the overwrite prompt.
Answers == {"y", "Y", "n", "yes"}

\* The values an analysis carries for an edge: fully shaded, unshaded, half
\* shaded, and an entry no analysis should hold (a fraction above 1.0 and a
\* negative sample count), which the merge takes all the same.
ShadeLevels ==
    <<[shadePct |-> FracUnit, shaded |-> TRUE, nSamples |-> 3],
      [shadePct |-> 0, shaded |-> FALSE, nSamples |-> 3],
      [shadePct |-> FracUnit + 1, shaded |-> TRUE, nSamples |-> -1],
      [shadePct |-> 1, shaded |-> TRUE, nSamples |-> 2]>>

\* The analysis JSON of the first k exported edges, its values rotated by j.
Analysis(k, j) ==
    [edges |-> [i \in 1..k |->
                   ("id" :> edge_id(i - 1))
                   @@ ShadeLevels[((i + j) % Len(ShadeLevels)) + 1]],
     analysisTime |-> "t",
     processingTimeMs |-> 0]

\* How many edges an analysis covers: none, the one edge of a size-capped
\* export, all of them, and one more than the graph has.
AnalysisSizes == {0, 1, NumEdges, NumEdges + 1}

\* A JSON whose entry lacks 'shadePct': load_shade_analysis raises KeyError.
MalformedAnalysis ==
    [edges |-> <<[id |-> edge_id(0), shaded |-> TRUE, nSamples |-> 1]>>,
     analysisTime |-> "t",
     processingTimeMs |-> 0]

Analyses ==
    {Analysis(k, j) : k \in AnalysisSizes, j \in {0, 1}}
    \cup {MalformedAnalysis}

\* Line 46-51 read these keys of every entry.
WellFormed(analysis) ==
    \A i \in 1..Len(analysis.edges) :
        {"id", "shadePct", "shaded", "nSamples"} \subseteq DOMAIN analysis.edges[i]

\* --output is left at its default (line 171).
CommandLines ==
    [graph : Paths, shade : Analyses, hour : ArgHours, output : {ENHANCED}]

-----------------------------------------------------------------------------
(* main() of combine_graph_shade.py, one process per invocation            *)

Procs == {1, 2}

\* Lines 166-197: parse, validate the hour, check that the graph file is
\* there.  A process starts a run when it is not in one.
Start(p, a) ==
    /\ pc[p] \in {"idle", "exit"}
    /\ clock < MaxRuns
    /\ args' = [args EXCEPT ![p] = a]
    /\ fs0' = [fs0 EXCEPT ![p] = fs]
    /\ graph' = [graph EXCEPT ![p] = None]
    /\ shade_data' = [shade_data EXCEPT ![p] = None]
    /\ enhanced_graph' = [enhanced_graph EXCEPT ![p] = None]
    /\ response' = [response EXCEPT ![p] = None]
    /\ IF a.hour \in Hours /\ fs[a.graph] # NoFile
       THEN /\ pc' = [pc EXCEPT ![p] = "load"]
            /\ rc' = [rc EXCEPT ![p] = None]
       ELSE /\ pc' = [pc EXCEPT ![p] = "exit"]
            /\ rc' = [rc EXCEPT ![p] = 1]
    /\ UNCHANGED <<fs, clock, routeVars>>

\* Lines 201-202: load_graph and load_shade_analysis; an exception ends the
\* run with return code 1 (lines 245-249).
Load(p) ==
    /\ pc[p] = "load"
    /\ IF fs[args[p].graph] # NoFile /\ WellFormed(args[p].shade)
       THEN /\ graph' = [graph EXCEPT ![p] = Unpickled(fs[args[p].graph])]
            /\ shade_data' = [shade_data EXCEPT ![p] =
                                 load_shade_analysis(args[p].shade.edges)]
            /\ pc' = [pc EXCEPT ![p] = "enhance"]
            /\ rc' = rc
       ELSE /\ pc' = [pc EXCEPT ![p] = "exit"]
            /\ rc' = [rc EXCEPT ![p] = 1]
            /\ UNCHANGED <<graph, shade_data>>
    /\ UNCHANGED <<fs, clock, args, enhanced_graph, response, fs0, routeVars>>

\* Line 211: enhance_graph_with_shade(graph, shade_data, args.hour).  It
\* copies the graph, asks when the first edge has the hour's data, and
\* writes into the copy.
Enhance(p) ==
    /\ pc[p] = "enhance"
    /\ LET cp == GraphCopy(graph[p])
       IN  \E answer \in (IF Prompts(cp.value, args[p].hour)
                          THEN Answers ELSE {None}) :
              LET new == EnhancedValue(cp.value, shade_data[p],
                                       args[p].hour, answer)
              IN  /\ response' = [response EXCEPT ![p] = answer]
                  /\ enhanced_graph' = [enhanced_graph EXCEPT ![p] = new]
                  /\ graph' = [graph EXCEPT ![p] =
                                  ThroughAliases(@, new, cp.aliases)]
    /\ pc' = [pc EXCEPT ![p] = "metadata"]
    /\ UNCHANGED <<fs, clock, args, shade_data, rc, fs0, routeVars>>

\* Line 214: update_graph_metadata(enhanced_graph, args.hour).  The list of
\* hours is the object the loaded graph holds too, when it held one.
UpdateMetadata(p) ==
    /\ pc[p] = "metadata"
    /\ LET new == [enhanced_graph[p] EXCEPT
                      !.graph = UpdatedMetadata(@, args[p].hour, clock + 1)]
       IN  /\ enhanced_graph' = [enhanced_graph EXCEPT ![p] = new]
           /\ graph' = [graph EXCEPT ![p] =
                           ThroughAliases(@, new, SharedContainers(graph[p]))]
    /\ clock' = clock + 1
    /\ pc' = [pc EXCEPT ![p] = "save"]
    /\ UNCHANGED <<fs, args, shade_data, response, rc, fs0, routeVars>>

\* Lines 217-249: save_enhanced_graph(enhanced_graph, args.output), the
\* statistics, and main() returns 0.  The average of the statistics
\* divides by the number of edges (line 230): on a graph without edges the
\* division raises after the save, and main() returns 1.
Save(p) ==
    /\ pc[p] = "save"
    /\ fs' = [fs EXCEPT ![args[p].output] = Pickled(enhanced_graph[p])]
    /\ pc' = [pc EXCEPT ![p] = "exit"]
    /\ rc' = [rc EXCEPT ![p] =
                 IF number_of_edges(enhanced_graph[p]) = 0 THEN 1 ELSE 0]
    /\ UNCHANGED <<clock, args, graph, shade_data, enhanced_graph, response,
                   fs0, routeVars>>

-----------------------------------------------------------------------------
(* The merge tool run by one operator, one invocation after another        *)

\* The graphs the build leaves behind: the graph of the street network,
\* and the graph of a network without segments.
BuiltGraphs == {BaseGraph, build_graph_segments(<<>>)}

InitMerge ==
    /\ \E g \in BuiltGraphs :
           fs = [path \in Paths |->
                    IF path = ORIGINAL THEN Pickled(g) ELSE NoFile]
    /\ clock = 0
    /\ pc = [p \in Procs |-> "idle"]
    /\ args = [p \in Procs |-> None]
    /\ graph = [p \in Procs |-> None]
    /\ shade_data = [p \in Procs |-> None]
    /\ enhanced_graph = [p \in Procs |-> None]
    /\ response = [p \in Procs |-> None]
    /\ rc = [p \in Procs |-> None]
    /\ fs0 = [p \in Procs |-> None]
    /\ G = NoGraph
    /\ app = "down"
    /\ request = None
    /\ temp_graph = NoGraph
    /\ reply = None

NextMerge ==
    \/ \E a \in CommandLines : Start(1, a)
    \/ Load(1)
    \/ Enhance(1)
    \/ UpdateMetadata(1)
    \/ Save(1)

SpecMerge == InitMerge /\ [][NextMerge]_vars

-----------------------------------------------------------------------------
(* Two operators run the merge tool at the same time, each in place on an  *)
(* artifact (the graph is read from and saved to the same path).  Nothing  *)
(* in main() orders the two runs: their steps interleave freely.           *)

InPlaceCommandLines ==
    {a \in [graph : Paths, shade : {Analysis(NumEdges, 0), Analysis(1, 1)},
            hour : {9, 21}, output : Paths] : a.graph = a.output}

NextConcurrent ==
    \E p \in Procs :
        \/ \E a \in InPlaceCommandLines : Start(p, a)
        \/ Load(p)
        \/ Enhance(p)
        \/ UpdateMetadata(p)
        \/ Save(p)

SpecConcurrent == InitMerge /\ [][NextConcurrent]_vars

-----------------------------------------------------------------------------
(* What the claims about the merge speak of                                *)

\* The attribute names of the hour-h record of an edge, for every hour.
HourKeyTable ==
    [h \in Hours |->
        [fraction |-> "shade_fraction_" \o ToString(h),
         length |-> "shade_length_" \o ToString(h),
         samples |-> "shade_samples_" \o ToString(h),
         shaded |-> "is_shaded_" \o ToString(h)]]

FractionKey(h) == HourKeyTable[h].fraction
LengthKey(h) == HourKeyTable[h].length
SamplesKey(h) == HourKeyTable[h].samples
ShadedKey(h) == HourKeyTable[h].shaded

HourKeys(h) == {FractionKey(h), LengthKey(h), SamplesKey(h), ShadedKey(h)}

\* The hour-h record of an edge: absent (the empty dict) or its fields.
HourRecord(attrs, h) ==
    [k \in HourKeys(h) \cap DOMAIN attrs |-> attrs[k]]

HasRecord(attrs, h) == HourKeys(h) \subseteq DOMAIN attrs

\* Hour h has data in graph g.
HasHourData(g, h) ==
    \E e \in DOMAIN g.data : HourRecord(g.data[e], h) # <<>>

\* The graph the run of process p was given: the input artifact as it was
\* when the run began.
InputGraph(p) == Unpickled(fs0[p][args[p].graph])

\* enhance_graph_with_shade has returned in the run of process p.
Merged(p) ==
    \/ pc[p] \in {"metadata", "save"}
    \/ pc[p] = "exit" /\ rc[p] = 0

\* The run of process p is over and has saved its output.
Saved(p) == pc[p] = "exit" /\ rc[p] = 0

\* The operator was asked and did not confirm the overwrite.
Declined(p) == response[p] \in Answers /\ StripLower(response[p]) # "y"

\* The run was an abort: hour H had data and the overwrite was declined.
Aborted(p) ==
    /\ Merged(p)
    /\ HasHourData(InputGraph(p), args[p].hour)
    /\ Declined(p)

\* The merge went ahead: hour H had no data, or the overwrite was confirmed.
Proceeded(p) ==
    /\ Merged(p)
    /\ \/ ~HasHourData(InputGraph(p), args[p].hour)
       \/ response[p] \in Answers /\ StripLower(response[p]) = "y"

\* The graph the run saved.
OutputGraph(p) == Unpickled(fs[args[p].output])

\* The edges of the input graph, numbered as the export of that artifact
\* numbers them: the i-th (1-based) is "edge_<i-1>".
EdgeCount(p) == Len(Edges(InputGraph(p)))

\* The attribute dict of the i-th edge: in the input graph, in the graph
\* enhance_graph_with_shade returned, and in the graph saved.
InAttrs(p, i) == Attrs(InputGraph(p), Edges(InputGraph(p))[i])

MergedAttrs(p, i) == Attrs(enhanced_graph[p], Edges(InputGraph(p))[i])

SavedAttrs(p, i) == Attrs(OutputGraph(p), Edges(InputGraph(p))[i])

\* The id of the i-th edge (1-based) of a graph: "edge_0", "edge_1", ...
EdgeNameTable == [i \in 1..(NumEdges + 1) |-> "edge_" \o ToString(i - 1)]

EdgeName(i) == EdgeNameTable[i]

\* The analysis entry for the i-th edge (1-based), if the JSON has one.
NamedInAnalysis(p, i) ==
    \E j \in 1..Len(args[p].shade.edges) :
        args[p].shade.edges[j].id = EdgeName(i)

AnalysisEntry(p, i) ==
    LET js == {j \in 1..Len(args[p].shade.edges) :
                  args[p].shade.edges[j].id = EdgeName(i)}
    IN  args[p].shade.edges[CHOOSE j \in js : \A k \in js : k <= j]

\* The merge would write something new: some edge's hour-H record differs
\* from what the analysis says.
AnalysisDiffers(p) ==
    \E i \in 1..EdgeCount(p) :
        /\ NamedInAnalysis(p, i)
        /\ HasRecord(InAttrs(p, i), args[p].hour)
        /\ InAttrs(p, i)[FractionKey(args[p].hour)]
           # AnalysisEntry(p, i).shadePct

-----------------------------------------------------------------------------
\* C3: when hour H already has shade data and the overwrite is not
\* confirmed, the merge leaves the hour-H record of every edge as it was:
\* in the graph enhance_graph_with_shade returns and in the artifact saved.
C3_DeclinedKeepsHourValues ==
    \A p \in Procs :
        Aborted(p) =>
            /\ \A i \in 1..EdgeCount(p) :
                  HourRecord(MergedAttrs(p, i), args[p].hour)
                  = HourRecord(InAttrs(p, i), args[p].hour)
            /\ DOMAIN enhanced_graph[p].data = DOMAIN InputGraph(p).data
            /\ Saved(p) =>
                  \A i \in 1..EdgeCount(p) :
                      HourRecord(SavedAttrs(p, i), args[p].hour)
                      = HourRecord(InAttrs(p, i), args[p].hour)

\* A declined overwrite whose analysis disagrees with the stored values has
\* run to its end.
C3_Witness ==
    /\ Saved(1)
    /\ Aborted(1)
    /\ AnalysisDiffers(1)

\* C4: when hour H already has data and the overwrite is not confirmed, the
\* run of main() changes nothing: every artifact file (edge records, list
\* of hours, timestamps) is, at the end of the run, as it was at its start.
C4_AbortModifiesNothing ==
    \A p \in Procs :
        (Saved(p) /\ Aborted(p)) => fs = fs0[p]

\* C5: a merge for hour H leaves the record of every other hour, on every
\* edge, as it was (present or absent, all its fields), whether the merge
\* proceeds, overwrites or aborts.
C5_OtherHoursUntouched ==
    \A p \in Procs :
        Merged(p) =>
            \A i \in 1..EdgeCount(p) :
                LET before == InAttrs(p, i)
                    merged == MergedAttrs(p, i)
                    saved == SavedAttrs(p, i)
                IN  \A h \in Hours \ {args[p].hour} :
                        /\ HourRecord(merged, h) = HourRecord(before, h)
                        /\ Saved(p) =>
                              HourRecord(saved, h) = HourRecord(before, h)

\* A merge for hour H has written analysis values on an edge that carries
\* another hour's record (not the default one), and has been saved.
C5_Witness ==
    /\ Saved(1)
    /\ Proceeded(1)
    /\ \E i \in 1..EdgeCount(1) :
          /\ NamedInAnalysis(1, i)
          /\ \E h \in Hours \ {args[1].hour} :
                /\ HasRecord(InAttrs(1, i), h)
                /\ InAttrs(1, i)[FractionKey(h)] # 0

\* C6: after a merge for hour H that proceeds, every edge named in the
\* analysis has the record {fraction of the analysis, fraction x base
\* weight, samples and is_shaded of the analysis}; every other edge has the
\* zero/false record if it had none, and its previous record if it had one.
C6_ProceedingMergeWrites ==
    \A p \in Procs :
        Proceeded(p) =>
            \A i \in 1..EdgeCount(p) :
                LET H == args[p].hour
                    before == InAttrs(p, i)
                    after == MergedAttrs(p, i)
                IN  IF NamedInAnalysis(p, i)
                    THEN /\ HasRecord(after, H)
                         /\ after[FractionKey(H)]
                            = AnalysisEntry(p, i).shadePct
                         /\ after[LengthKey(H)] * FracUnit
                            = AnalysisEntry(p, i).shadePct * before["weight"]
                         /\ after[SamplesKey(H)]
                            = AnalysisEntry(p, i).nSamples
                         /\ after[ShadedKey(H)]
                            = AnalysisEntry(p, i).shaded
                    ELSE IF HourRecord(before, H) = <<>>
                    THEN /\ HasRecord(after, H)
                         /\ after[FractionKey(H)] = 0
                         /\ after[LengthKey(H)] = 0
                         /\ after[SamplesKey(H)] = 0
                         /\ after[ShadedKey(H)] = FALSE
                    ELSE HourRecord(after, H) = HourRecord(before, H)

\* A confirmed overwrite has run on a graph where one edge is named in the
\* analysis and another, not named, already had a record that is not the
\* default one.
C6_Witness ==
    /\ Proceeded(1)
    /\ HasHourData(InputGraph(1), args[1].hour)
    /\ \E i, k \in 1..EdgeCount(1) :
          /\ NamedInAnalysis(1, i)
          /\ ~NamedInAnalysis(1, k)
          /\ HasRecord(InAttrs(1, k), args[1].hour)
          /\ InAttrs(1, k)[FractionKey(args[1].hour)] # 0

\* C7: applying the same merge (same analysis, same hour) once more to the
\* graph a proceeding merge produced, the overwrite confirmed or declined,
\* gives the same records on every edge for every hour.
C7_SameMergeTwice ==
    \A p \in Procs :
        Proceeded(p) =>
            \A answer \in Answers :
                EnhancedValue(GraphCopy(enhanced_graph[p]).value, shade_data[p],
                              args[p].hour, answer).data
                = enhanced_graph[p].data

\* A partial merge has proceeded: it wrote analysis records on some edges
\* (with a sample count) and defaults on others.
C7_Witness ==
    /\ Proceeded(1)
    /\ \E i, k \in 1..EdgeCount(1) :
          /\ NamedInAnalysis(1, i)
          /\ AnalysisEntry(1, i).nSamples # 0
          /\ ~NamedInAnalysis(1, k)

\* C9: the merge never mutates its input: at every point of every run, the
\* input artifact and main()'s in-memory input graph hold what the input
\* artifact held when the run began.
C9_InputNeverMutated ==
    \A p \in Procs :
        /\ pc[p] \in {"load", "enhance", "metadata", "save", "exit"}
              => fs[args[p].graph] = fs0[p][args[p].graph]
        /\ pc[p] \in {"enhance", "metadata", "save"} \/ Saved(p)
              => graph[p] = InputGraph(p)

\* C10: every stored per-hour record has a fraction in [0, 1], a shade
\* length in [0, base weight] and a sample count >= 0.
C10_RecordsInRange ==
    \A path \in Paths :
        fs[path] # NoFile =>
            \A e \in DOMAIN Unpickled(fs[path]).data :
                LET attrs == Unpickled(fs[path]).data[e]
                IN  \A h \in Hours :
                        HasRecord(attrs, h) =>
                            /\ attrs[FractionKey(h)] >= 0
                            /\ attrs[FractionKey(h)] <= FracUnit
                            /\ attrs[LengthKey(h)] >= 0
                            /\ attrs[LengthKey(h)] <= attrs["weight"]
                            /\ attrs[SamplesKey(h)] >= 0

\* C8: two merges for different hours H1 # H2 run against the same stored
\* artifact, in any interleaving, lose nothing: once both have saved, the
\* artifact lists both hours and every edge carries both hours' records.
C8_NoLostUpdate ==
    (/\ Saved(1) /\ Saved(2)
     /\ args[1].hour # args[2].hour
     /\ args[1].output = args[2].output)
    => LET final == Unpickled(fs[args[1].output])
       IN  \A p \in Procs :
               /\ "shade_analysis_hours" \in DOMAIN final.graph
               /\ InSeq(final.graph["shade_analysis_hours"], args[p].hour)
               /\ \A e \in DOMAIN final.data :
                     HasRecord(final.data[e], args[p].hour)

-----------------------------------------------------------------------------
(* networkx shortest paths, as app.py calls them.  A call returns a value   *)
(* or raises; a dict keyed by nodes is a function on a set of nodes; a      *)
(* heap is the set of its (distance, count, node) entries, each count       *)
(* handed out once, so that heappop takes the least distance and, among     *)
(* equals, the entry pushed first.                                          *)

Return(value) == [ok |-> TRUE, value |-> value]

Raise(exception) == [ok |-> FALSE, value |-> exception]

RECURSIVE Reverse(_)
Reverse(seq) ==
    IF seq = <<>> THEN <<>> ELSE Append(Reverse(Tail(seq)), Head(seq))

\* _weight_function(G, weight): lambda u, v, data: data.get(weight, 1)
EdgeCost(g, weight, u, v) == DictGet(g.data[{u, v}], weight, 1)

\* heappop's choice
HeapMin(fringe) ==
    CHOOSE x \in fringe :
        \A y \in fringe : x.d < y.d \/ (x.d = y.d /\ x.c <= y.c)

\* _dijkstra_multisource, the for loop over the neighbours of v.
RECURSIVE DijkstraRelax(_, _, _, _, _)
DijkstraRelax(g, weight, s, v, j) ==
    IF s.error \/ j > Len(g.adj[v]) THEN s
    ELSE LET u == g.adj[v][j]
             vu_dist == s.dist[v] + EdgeCost(g, weight, v, u)
         IN  IF u \in DOMAIN s.dist
             THEN IF vu_dist < s.dist[u]
                  THEN [s EXCEPT !.error = TRUE]
                  ELSE DijkstraRelax(g, weight, s, v, j + 1)
             ELSE IF u \notin DOMAIN s.seen \/ vu_dist < s.seen[u]
             THEN DijkstraRelax(g, weight,
                      [s EXCEPT !.seen = DictSet(@, u, vu_dist),
                                !.fringe = @ \cup {[d |-> vu_dist, c |-> s.c,
                                                    v |-> u]},
                                !.c = @ + 1],
                      v, j + 1)
             ELSE DijkstraRelax(g, weight, s, v, j + 1)

\* _dijkstra_multisource, the while loop: it ends on an empty heap, on the
\* target, or on the ValueError of a contradictory path.
RECURSIVE DijkstraLoop(_, _, _, _)
DijkstraLoop(g, weight, target, s) ==
    IF s.error \/ s.fringe = {} THEN s
    ELSE LET top == HeapMin(s.fringe)
             s1 == [s EXCEPT !.fringe = @ \ {top}]
         IN  IF top.v \in DOMAIN s1.dist
             THEN DijkstraLoop(g, weight, target, s1)
             ELSE LET s2 == [s1 EXCEPT !.dist = DictSet(@, top.v, top.d)]
                  IN  IF top.v = target THEN s2
                      ELSE DijkstraLoop(g, weight, target,
                               DijkstraRelax(g, weight, s2, top.v, 1))

\* nx.shortest_path_length(G, source, target, weight=...), which is
\* dijkstra_path_length.
shortest_path_length(g, source, target, weight) ==
    IF ~InSeq(g.nodes, source) THEN Raise("NodeNotFound")
    ELSE IF source = target THEN Return(0)
    ELSE LET s == DijkstraLoop(g, weight, target,
                      [dist |-> <<>>, seen |-> (source :> 0),
                       fringe |-> {[d |-> 0, c |-> 0, v |-> source]},
                       c |-> 1, error |-> FALSE])
         IN  IF s.error THEN Raise("ValueError")
             ELSE IF target \in DOMAIN s.dist THEN Return(s.dist[target])
             ELSE Raise("NetworkXNoPath")

\* bidirectional_dijkstra, the for loop over the neighbours of v in the
\* search of direction dir (1 from the source, 2 from the target).
RECURSIVE BidirectionalRelax(_, _, _, _, _, _)
BidirectionalRelax(g, weight, s, dir, v, j) ==
    IF s.error \/ j > Len(g.adj[v]) THEN s
    ELSE LET w == g.adj[v][j]
             vwLength == s.dists[dir][v] + EdgeCost(g, weight, v, w)
         IN  IF w \in DOMAIN s.dists[dir]
             THEN IF vwLength < s.dists[dir][w]
                  THEN [s EXCEPT !.error = TRUE]
                  ELSE BidirectionalRelax(g, weight, s, dir, v, j + 1)
             ELSE IF w \notin DOMAIN s.seen[dir] \/ vwLength < s.seen[dir][w]
             THEN LET s1 == [s EXCEPT
                                !.seen[dir] = DictSet(@, w, vwLength),
                                !.fringe[dir] = @ \cup {[d |-> vwLength,
                                                         c |-> s.c, v |-> w]},
                                !.c = @ + 1,
                                !.paths[dir] =
                                    DictSet(@, w, Append(s.paths[dir][v], w))]
                      totaldist == s1.seen[1][w] + s1.seen[2][w]
                      s2 == IF /\ w \in DOMAIN s1.seen[1]
                               /\ w \in DOMAIN s1.seen[2]
                               /\ (s1.finalpath = <<>>
                                   \/ s1.finaldist > totaldist)
                            THEN [s1 EXCEPT
                                     !.finaldist = totaldist,
                                     !.finalpath =
                                         s1.paths[1][w]
                                         \o Tail(Reverse(s1.paths[2][w]))]
                            ELSE s1
                  IN  BidirectionalRelax(g, weight, s2, dir, v, j + 1)
             ELSE BidirectionalRelax(g, weight, s, dir, v, j + 1)

\* bidirectional_dijkstra, the while loop: the two searches take turns,
\* and the first node settled by both ends it.
RECURSIVE BidirectionalLoop(_, _, _, _)
BidirectionalLoop(g, weight, s, last) ==
    IF s.error THEN Raise("ValueError")
    ELSE IF s.fringe[1] = {} \/ s.fringe[2] = {} THEN Raise("NetworkXNoPath")
    ELSE LET dir == 3 - last
             top == HeapMin(s.fringe[dir])
             s1 == [s EXCEPT !.fringe[dir] = @ \ {top}]
         IN  IF top.v \in DOMAIN s1.dists[dir]
             THEN BidirectionalLoop(g, weight, s1, dir)
             ELSE LET s2 == [s1 EXCEPT
                                !.dists[dir] = DictSet(@, top.v, top.d)]
                  IN  IF top.v \in DOMAIN s2.dists[3 - dir]
                      THEN Return(s2.finalpath)
                      ELSE BidirectionalLoop(g, weight,
                               BidirectionalRelax(g, weight, s2, dir,
                                                  top.v, 1),
                               dir)

\* nx.shortest_path(G, source, target, weight=...), which is
\* bidirectional_dijkstra.
nx_shortest_path(g, source, target, weight) ==
    IF ~InSeq(g.nodes, source) \/ ~InSeq(g.nodes, target)
    THEN Raise("NodeNotFound")
    ELSE IF source = target THEN Return(<<source>>)
    ELSE BidirectionalLoop(g, weight,
             [dists |-> <<<<>>, <<>>>>,
              paths |-> <<(source :> <<source>>), (target :> <<target>>)>>,
              fringe |-> <<{[d |-> 0, c |-> 0, v |-> source]},
                           {[d |-> 0, c |-> 1, v |-> target]}>>,
              seen |-> <<(source :> 0), (target :> 0)>>,
              c |-> 2, finaldist |-> 0, finalpath |-> <<>>,
              error |-> FALSE],
             2)

-----------------------------------------------------------------------------
(* app.py: the route queries                                               *)

\* find_nearest_node's None.
NoNode == <<>>

\* geod.inv(lon, lat, node_lon, node_lat)[2]: the distance between two
\* positions, here the square of their distance on the grid of the nodes
\* (the same order, and the same ties, as the distance itself).
GeodDistance(lon1, lat1, lon2, lat2) ==
    (lon1 - lon2) * (lon1 - lon2) + (lat1 - lat2) * (lat1 - lat2)

\* A plausible slip: `<=` for `<`, which keeps the last of the nearest
\* nodes.
RECURSIVE NearestScanLast(_, _, _, _, _, _)
NearestScanLast(g, lat, lon, k, min_dist, nearest_node) ==
    IF k > Len(g.nodes) THEN nearest_node
    ELSE LET node == g.nodes[k]
             dist == GeodDistance(lon, lat, node[1], node[2])
         IN  IF nearest_node = NoNode \/ dist <= min_dist
             THEN NearestScanLast(g, lat, lon, k + 1, dist, node)
             ELSE NearestScanLast(g, lat, lon, k + 1, min_dist, nearest_node)

\* The loop of find_nearest_node from the k-th node on; min_dist is
\* float('inf') as long as nearest_node is None.
RECURSIVE NearestScan(_, _, _, _, _, _)
NearestScan(g, lat, lon, k, min_dist, nearest_node) ==
    IF k > Len(g.nodes) THEN nearest_node
    ELSE LET node == g.nodes[k]
             dist == GeodDistance(lon, lat, node[1], node[2])
         IN  IF nearest_node = NoNode \/ dist < min_dist
             THEN NearestScan(g, lat, lon, k + 1, dist, node)
             ELSE NearestScan(g, lat, lon, k + 1, min_dist, nearest_node)

\* A plausible slip: the scan starts from a node at the origin instead of
\* None.
find_nearest_node_from_origin(g, lat, lon) ==
    IF g = NoGraph THEN NoNode
    ELSE NearestScan(g, lat, lon, 1,
                     GeodDistance(lon, lat, 0, 0), <<0, 0>>)

find_nearest_node(g, lat, lon) ==
    IF g = NoGraph THEN NoNode
    ELSE NearestScan(g, lat, lon, 1, 0, NoNode)

\* POST /nearest_node: the reply.
nearest_node(g, req) ==
    IF g = NoGraph THEN [error |-> "Graph not loaded"]
    ELSE LET nearest == find_nearest_node(g, req.lat, req.lng)
         IN  IF nearest = NoNode THEN [error |-> "No nearest node found"]
             ELSE [nearest_node |-> <<nearest[2], nearest[1]>>,
                   node_id |-> nearest,
                   input |-> <<req.lat, req.lng>>]

\* Optional[int] and Optional[float]: None, or the number n.
Null == <<>>

Some(n) == <<n>>

\* An exception no handler catches: the framework answers for the handler
\* with status 500 and no result object.
Unhandled(exception) == [status_code |-> 500, unhandled |-> exception]

\* Optional[int]: None, or the integer n.
NoLimit == <<>>

Limit(n) == <<n>>

\* f"edge_{i}" of the export (line 420).
export_edge_id(i) == "edge_" \o ToString(i)

\* The body of the two edge exports (lines 406-433 and 462-489): the
\* entries of the first `limit` edges of G.edges(data=True), or of all of
\* them when limit is None or not positive.
ExportedEdges(g, limit) ==
    LET edge_iter == IF limit # NoLimit /\ limit[1] > 0
                     THEN SubSeq(Edges(g), 1,
                                 IF limit[1] < Len(Edges(g))
                                 THEN limit[1] ELSE Len(Edges(g)))
                     ELSE Edges(g)
    IN  [i \in 1..Len(edge_iter) |->
            LET node1 == edge_iter[i].u
                node2 == edge_iter[i].v
                edge_data == Attrs(g, edge_iter[i])
                edge == [id |-> export_edge_id(i - 1),
                         a |-> [lat |-> node1[2], lng |-> node1[1]],
                         b |-> [lat |-> node2[2], lng |-> node2[1]]]
            IN  IF "weight" \in DOMAIN edge_data
                THEN [weight |-> edge_data["weight"]] @@ edge
                ELSE edge]

\* GET /graph/edges: the reply.
get_graph_edges(g, limit) ==
    IF g = NoGraph THEN [error |-> "Graph not loaded"]
    ELSE LET edges == ExportedEdges(g, limit)
             total_edges == number_of_edges(g)
         IN  [type |-> "graph_edges",
              count |-> Len(edges),
              total_available |-> total_edges,
              limited |-> limit # NoLimit /\ limit[1] < total_edges,
              edges |-> edges]

\* GET /graph/edges/download: the JSONResponse.
download_graph_edges(g, limit) ==
    IF g = NoGraph
    THEN [content |-> [error |-> "Graph not loaded"], status_code |-> 500]
    ELSE LET edges == ExportedEdges(g, limit)
             total_edges == number_of_edges(g)
             limited == limit # NoLimit /\ limit[1] < total_edges
         IN  [content |->
                  [type |-> "graph_edges",
                   count |-> Len(edges),
                   total_available |-> total_edges,
                   limited |-> limited,
                   limit_applied |-> limit,
                   generated_at |-> DictGet(g.graph, "created_at", "unknown"),
                   edges |-> edges],
              status_code |-> 200,
              filename |-> IF limited THEN "graph_edges_limited.json"
                           ELSE "graph_edges.json"]

\* [[lat, lon] for lon, lat in coords]
lonlat_to_latlng(coords) ==
    [i \in 1..Len(coords) |-> <<coords[i][2], coords[i][1]>>]

\* round(x, 1) of the float n / d (n >= 0, d > 0), in tenths: the nearest
\* tenth and, half way between two, the even one.
Round1(n, d) ==
    LET q == (10 * n) \div d
        r == (10 * n) % d
    IN  IF 2 * r > d THEN q + 1
        ELSE IF 2 * r = d THEN q + (q % 2)
        ELSE q

\* round(total_shade_length / total_path_length * 100, 1) if
\* total_path_length > 0 else 0; the percentage counts in tenths.
shade_percentage(total_shade_length, total_path_length) ==
    IF total_path_length > 0
    THEN Round1(100 * total_shade_length, total_path_length)
    ELSE 0

\* The statistics loop over the segments of a path (lines 218-231 and
\* 355-368), from segment i on.
RECURSIVE PathStats(_, _, _, _, _)
PathStats(g, path_nodes, i, shade_length_key, is_shaded_key) ==
    IF i > Len(path_nodes) - 1
    THEN [total_shade_length |-> 0, total_path_length |-> 0,
          shaded_segments |-> 0]
    ELSE LET rest == PathStats(g, path_nodes, i + 1, shade_length_key,
                               is_shaded_key)
             edge == {path_nodes[i], path_nodes[i + 1]}
         IN  IF edge \in DOMAIN g.data
             THEN LET edge_data == g.data[edge]
                      shade_length ==
                          DictGet(edge_data, shade_length_key,
                                  DictGet(edge_data, "shade_length_9", 0))
                      is_shaded ==
                          DictGet(edge_data, is_shaded_key,
                                  DictGet(edge_data, "is_shaded_9", FALSE))
                  IN  [total_shade_length |->
                           rest.total_shade_length + shade_length,
                       total_path_length |->
                           rest.total_path_length
                           + DictGet(edge_data, "weight", 0),
                       shaded_segments |->
                           rest.shaded_segments
                           + (IF is_shaded THEN 1 ELSE 0)]
             ELSE rest

\* The except clauses of the two path handlers.
ExceptReply(exception, what) ==
    IF exception = "NetworkXNoPath"
    THEN [error |-> "No path found between the points"]
    ELSE [error |-> what \o ": " \o exception]

\* POST /shortest_path: the reply.  The handler writes nothing to G.
shortest_path(g, req) ==
    IF g = NoGraph THEN [error |-> "Graph not loaded"]
    ELSE
    LET start_node == find_nearest_node(g, req.start_lat, req.start_lng)
        end_node == find_nearest_node(g, req.end_lat, req.end_lng)
    IN
    IF start_node = NoNode \/ end_node = NoNode
    THEN [error |-> "Could not find nearest nodes"]
    ELSE
    LET path == nx_shortest_path(g, start_node, end_node, "weight")
        length == shortest_path_length(g, start_node, end_node, "weight")
    IN
    IF ~path.ok THEN ExceptReply(path.value, "Path computation failed")
    ELSE IF ~length.ok
    THEN ExceptReply(length.value, "Path computation failed")
    ELSE
    LET path_nodes == path.value
        total_distance == length.value
        edges == Edges(g)
        has_shade_data ==
            edges # <<>> /\ "shade_fraction_9" \in DOMAIN Attrs(g, edges[1])
        stats == PathStats(g, path_nodes, 1, "shade_length_9", "is_shaded_9")
        result ==
            [path |-> lonlat_to_latlng(path_nodes),
             start_node |-> <<start_node[2], start_node[1]>>,
             end_node |-> <<end_node[2], end_node[1]>>,
             total_distance_m |-> total_distance,
             num_segments |-> Len(path_nodes) - 1,
             shade_mode |-> "standard",
             analysis_time |-> "9:00"]
    IN
    IF has_shade_data
    THEN [shaded_segments |-> stats.shaded_segments,
          shade_percentage |->
              shade_percentage(stats.total_shade_length,
                               stats.total_path_length),
          total_shade_length_m |-> stats.total_shade_length,
          original_distance_m |-> total_distance,
          shade_aware_distance_m |-> total_distance,
          shade_penalty_applied |-> 1,
          shade_penalty_added_m |-> 0] @@ result
    ELSE result

\* A plausible slip in the night test: 6 o'clock taken for a daylight hour.
is_night_before_6(time) == time < 6 \/ time >= 19

\* Line 287.
is_night(time) == time <= 6 \/ time >= 19

\* A plausible slip: the parentheses round the unshaded length are lost, so
\* the base weight is counted twice and the penalty scales the shade.
shade_aware_weight_unparenthesised(edge_attrs, shade_penalty, is_daylight, hour) ==
    LET base_weight == DictGet(edge_attrs, "weight", 0)
        shade_length_key == "shade_length_" \o ToString(hour)
        shade_length == DictGet(edge_attrs, shade_length_key,
                                DictGet(edge_attrs, "shade_length_9", 0))
    IN  IF ~is_daylight THEN base_weight
        ELSE base_weight + base_weight - (shade_length * shade_penalty)

\* A plausible slip: shade is rewarded instead of sun being penalised.
shade_aware_weight_shade_bonus(edge_attrs, shade_penalty, is_daylight, hour) ==
    LET base_weight == DictGet(edge_attrs, "weight", 0)
        shade_length_key == "shade_length_" \o ToString(hour)
        shade_length == DictGet(edge_attrs, shade_length_key,
                                DictGet(edge_attrs, "shade_length_9", 0))
    IN  IF ~is_daylight THEN base_weight
        ELSE base_weight - (shade_length * shade_penalty)

\* A plausible slip, the one the comment on line 276 describes: the shaded
\* length is what is penalised.
shade_aware_weight_of_shade(edge_attrs, shade_penalty, is_daylight, hour) ==
    LET base_weight == DictGet(edge_attrs, "weight", 0)
        shade_length_key == "shade_length_" \o ToString(hour)
        shade_length == DictGet(edge_attrs, shade_length_key,
                                DictGet(edge_attrs, "shade_length_9", 0))
    IN  IF ~is_daylight THEN base_weight
        ELSE base_weight + (shade_length * shade_penalty)

\* Another plausible slip: no fall-back to the hour-9 record.
shade_aware_weight_no_fallback(edge_attrs, shade_penalty, is_daylight, hour) ==
    LET base_weight == DictGet(edge_attrs, "weight", 0)
        shade_length_key == "shade_length_" \o ToString(hour)
        shade_length == DictGet(edge_attrs, shade_length_key, 0)
    IN  IF ~is_daylight THEN base_weight
        ELSE base_weight + ((base_weight - shade_length) * shade_penalty)

\* A plausible slip: the hour-9 record is taken whenever the edge has one,
\* and the record of the hour asked for only without it.
shade_aware_weight_hour9_first(edge_attrs, shade_penalty, is_daylight, hour) ==
    LET base_weight == DictGet(edge_attrs, "weight", 0)
        shade_length_key == "shade_length_" \o ToString(hour)
        shade_length == DictGet(edge_attrs, "shade_length_9",
                                DictGet(edge_attrs, shade_length_key, 0))
    IN  IF ~is_daylight THEN base_weight
        ELSE base_weight + ((base_weight - shade_length) * shade_penalty)

calculate_shade_aware_weight(edge_attrs, shade_penalty, is_daylight, hour) ==
    LET base_weight == DictGet(edge_attrs, "weight", 0)
        shade_length_key == "shade_length_" \o ToString(hour)
        shade_length == DictGet(edge_attrs, shade_length_key,
                                DictGet(edge_attrs, "shade_length_9", 0))
    IN  IF ~is_daylight THEN base_weight
        ELSE base_weight + ((base_weight - shade_length) * shade_penalty)

\* Lines 332-334: every edge dict of the graph gets its shade_aware_weight.
WithShadeAwareWeights(temp, shade_penalty, hour) ==
    [temp EXCEPT
        !.data = [e \in DOMAIN temp.data |->
                     DictSet(temp.data[e], "shade_aware_weight",
                             calculate_shade_aware_weight(
                                 temp.data[e], shade_penalty, TRUE,
                                 hour))]]

\* POST /shortest_path_shade: the reply, and G as the handler leaves it.
\* The night test (line 287) stands outside the try block: on a null hour
\* "None <= 6" raises a TypeError that nothing catches.  On a null penalty
\* the TypeError comes from the product on line 277, at the first edge of
\* the loop inside the try block, and the last except clause answers.
\* At night the standard handler answers.  By day the handler copies G,
\* writes the shade-aware weight into every edge dict of the copy and
\* searches the copy.
shortest_path_shade_aware(g, req) ==
    IF g = NoGraph THEN [G |-> g, temp_graph |-> NoGraph, reply |-> [error |-> "Graph not loaded"]]
    ELSE IF req.time = Null
    THEN [G |-> g, temp_graph |-> NoGraph, reply |-> Unhandled("TypeError")]
    ELSE
    LET time == req.time[1] IN
    IF is_night(time)
    THEN LET standard_req == [start_lat |-> req.start_lat,
                              start_lng |-> req.start_lng,
                              end_lat |-> req.end_lat,
                              end_lng |-> req.end_lng]
             result == shortest_path(g, standard_req)
         IN  [G |-> g, temp_graph |-> NoGraph,
              reply |-> IF "path" \in DOMAIN result
                        THEN [shade_mode |-> "night",
                              shade_penalty_applied |-> FALSE] @@ result
                        ELSE result]
    ELSE
    LET edges == Edges(g) IN
    IF edges = <<>>
    THEN [G |-> g, temp_graph |-> NoGraph, reply |-> [error |-> "No edges available in graph"]]
    ELSE
    LET sample_edge == Attrs(g, edges[1])
        shade_fraction_key == "shade_fraction_" \o ToString(time)
        has_hour_data == shade_fraction_key \in DOMAIN sample_edge
        fallback_hour_data == "shade_fraction_9" \in DOMAIN sample_edge
    IN
    IF ~has_hour_data /\ ~fallback_hour_data
    THEN [G |-> g, temp_graph |-> NoGraph,
          reply |-> [error |-> "Shade data not available for "
                               \o ToString(time)
                               \o ":00 or fallback 9:00 - use /shortest_path instead"]]
    ELSE
    LET start_node == find_nearest_node(g, req.start_lat, req.start_lng)
        end_node == find_nearest_node(g, req.end_lat, req.end_lng)
    IN
    IF start_node = NoNode \/ end_node = NoNode
    THEN [G |-> g, temp_graph |-> NoGraph, reply |-> [error |-> "Could not find nearest nodes"]]
    ELSE
    LET copy == GraphCopy(g)
        what == "Shade-aware path computation failed"
    IN
    IF req.shade_penalty = Null
    THEN [G |-> g, temp_graph |-> copy.value,
          reply |-> ExceptReply("TypeError", what)]
    ELSE
    LET shade_penalty == req.shade_penalty[1]
        temp == WithShadeAwareWeights(copy.value, shade_penalty, time)
        g1 == ThroughAliases(g, temp, copy.aliases)
        path == nx_shortest_path(temp, start_node, end_node,
                                 "shade_aware_weight")
        original == shortest_path_length(g1, start_node, end_node, "weight")
        shade_aware == shortest_path_length(temp, start_node, end_node,
                                            "shade_aware_weight")
    IN
    IF ~path.ok THEN [G |-> g1, temp_graph |-> temp, reply |-> ExceptReply(path.value, what)]
    ELSE IF ~original.ok
    THEN [G |-> g1, temp_graph |-> temp, reply |-> ExceptReply(original.value, what)]
    ELSE IF ~shade_aware.ok
    THEN [G |-> g1, temp_graph |-> temp, reply |-> ExceptReply(shade_aware.value, what)]
    ELSE
    LET path_nodes == path.value
        original_distance == original.value
        shade_aware_distance == shade_aware.value
        stats == PathStats(temp, path_nodes, 1,
                           "shade_length_" \o ToString(time),
                           "is_shaded_" \o ToString(time))
    IN  [G |-> g1, temp_graph |-> temp,
         reply |->
            [path |-> lonlat_to_latlng(path_nodes),
             start_node |-> <<start_node[2], start_node[1]>>,
             end_node |-> <<end_node[2], end_node[1]>>,
             original_distance_m |-> original_distance,
             shade_aware_distance_m |-> shade_aware_distance,
             shade_penalty_applied |-> shade_penalty,
             analysis_time |-> ToString(time) \o ":00",
             shade_mode |-> "daylight",
             num_segments |-> Len(path_nodes) - 1,
             shaded_segments |-> stats.shaded_segments,
             shade_percentage |->
                 shade_percentage(stats.total_shade_length,
                                  stats.total_path_length),
             total_shade_length_m |-> stats.total_shade_length,
             shade_penalty_added_m |->
                 shade_aware_distance - original_distance]]

-----------------------------------------------------------------------------
(* The artifacts the server may find at startup                            *)

\* One run of main() of combine_graph_shade.py on the stored graph g that
\* goes through to the save: the graph it saves.
main(g, analysis, hour, answer, now) ==
    LET enhanced == EnhancedValue(GraphCopy(g).value,
                                  load_shade_analysis(analysis.edges),
                                  hour, answer)
    IN  [enhanced EXCEPT !.graph = UpdatedMetadata(@, hour, now)]

\* An analysis that finds the two short streets of the block in full shade
\* and its diagonal in the sun.
ShadyStreets ==
    [edges |-> <<("id" :> edge_id(0)) @@ ShadeLevels[1],
                 ("id" :> edge_id(1)) @@ ShadeLevels[1],
                 ("id" :> edge_id(2)) @@ ShadeLevels[2]>>,
     analysisTime |-> "t",
     processingTimeMs |-> 0]

\* The enhanced artifact: absent, malformed, or the base graph after one
\* or two merges (hour 9 alone, hour 12 alone, both, and an hour 9 whose
\* analysis holds the entry no analysis should hold).
EnhancedArtifacts ==
    LET shady9 == main(BaseGraph, ShadyStreets, 9, None, 1)
    IN  {NoFile,
         Malformed,
         Pickled(shady9),
         Pickled(main(BaseGraph, ShadyStreets, 12, None, 1)),
         Pickled(main(shady9, Analysis(NumEdges, 0), 12, None, 2)),
         Pickled(main(BaseGraph, Analysis(NumEdges, 0), 9, None, 1))}

\* The original artifact: the built graph, the graph of a network without
\* segments, no file, or a malformed one.
OriginalArtifacts ==
    {Pickled(BaseGraph), Pickled(build_graph_segments(<<>>)), NoFile,
     Malformed}

FileSystems ==
    {files \in [Paths -> OriginalArtifacts \cup EnhancedArtifacts] :
        /\ files[ORIGINAL] \in OriginalArtifacts
        /\ files[ENHANCED] \in EnhancedArtifacts
        /\ files[ENHANCED] # NoFile => files[ORIGINAL] = Pickled(BaseGraph)}

-----------------------------------------------------------------------------
(* The server.  lifespan() loads G once; the handlers are coroutines that  *)
(* never yield to the event loop, so queries are handled one at a time.    *)

\* The positions a client asks about: for each longitude of the grid its
\* two latitudes, which are the node positions and as many positions
\* between nodes.
Points == {<<lat, lng>> : lat \in {0, 1}, lng \in 1..NumNodes}

\* The positions the route queries are asked between: the node positions
\* and two positions that have more than one nearest node.
RoutePoints ==
    {<<Node(k)[2], Node(k)[1]>> : k \in 1..NumNodes} \cup {<<0, 1>>, <<1, 2>>}

\* The hours asked for: the last of the night and the first of the day in
\* the morning, 9 and 12, the last of the day and the first of the night
\* in the evening.
QueryHours == {6, 7, 9, 12, 18, 19}

\* What a request may carry as its hour: one of the hours above, an
\* integer that is no hour of the day, or null.
QueryTimes == {Some(h) : h \in QueryHours \cup {24}} \cup {Null}

\* ShadeAwarePathRequest takes any float for shade_penalty: a negative
\* factor is accepted like any other.
ShadePenalties == {-2, 0, 1, 2}

QueryPenalties == {Some(p) : p \in ShadePenalties} \cup {Null}

ShortestPathRequests ==
    {[endpoint |-> "/shortest_path",
      start_lat |-> s[1], start_lng |-> s[2],
      end_lat |-> e[1], end_lng |-> e[2]] :
        s \in RoutePoints, e \in RoutePoints}

ShadeAwarePathRequests ==
    {[endpoint |-> "/shortest_path_shade",
      start_lat |-> r.s[1], start_lng |-> r.s[2],
      end_lat |-> r.e[1], end_lng |-> r.e[2],
      time |-> r.time, shade_penalty |-> r.shade_penalty] :
        r \in [s : RoutePoints, e : RoutePoints, time : QueryTimes,
               shade_penalty : QueryPenalties]}

NearestNodeRequests ==
    {[endpoint |-> "/nearest_node", lat |-> p[1], lng |-> p[2]] :
        p \in Points}

\* Lines 166-182.
NearestNode ==
    /\ app = "handling"
    /\ request.endpoint = "/nearest_node"
    /\ reply' = nearest_node(G, request)
    /\ app' = "replied"
    /\ UNCHANGED <<mergeVars, G, request, temp_graph>>

\* The limits of an export: none, and integers from below zero to above
\* the number of edges.
Limits == {NoLimit, Limit(-1), Limit(0), Limit(1), Limit(NumEdges + 1)}

GraphEdgesRequests ==
    {[endpoint |-> e, limit |-> l] :
        e \in {"/graph/edges", "/graph/edges/download"}, l \in Limits}

\* Lines 394-442.
GetGraphEdges ==
    /\ app = "handling"
    /\ request.endpoint = "/graph/edges"
    /\ reply' = get_graph_edges(G, request.limit)
    /\ app' = "replied"
    /\ UNCHANGED <<mergeVars, G, request, temp_graph>>

\* Lines 445-510.
DownloadGraphEdges ==
    /\ app = "handling"
    /\ request.endpoint = "/graph/edges/download"
    /\ reply' = download_graph_edges(G, request.limit)
    /\ app' = "replied"
    /\ UNCHANGED <<mergeVars, G, request, temp_graph>>

\* The file lifespan() reads: the enhanced graph when it is there.
StartupFile(files) ==
    IF files[ENHANCED] # NoFile THEN files[ENHANCED] ELSE files[ORIGINAL]

\* The try block of lifespan() with a fallback it does not have: the
\* original graph when the enhanced one does not load.
lifespan_with_fallback(files) ==
    LET Loads(file) == file # NoFile /\ file # Malformed
    IN  IF Loads(files[ENHANCED]) THEN Unpickled(files[ENHANCED])
        ELSE IF Loads(files[ORIGINAL]) THEN Unpickled(files[ORIGINAL])
        ELSE NoGraph

\* The try block of lifespan() (lines 30-48): G after startup.  open() of
\* a missing file, pickle.load() of a malformed one, or number_of_nodes()
\* of what it returned raises, and the handler sets G to None.
lifespan(files) ==
    LET file == StartupFile(files)
    IN  IF file # NoFile /\ file # Malformed THEN Unpickled(file)
        ELSE NoGraph

\* Lines 21-48.
Lifespan ==
    /\ app = "starting"
    /\ G' = lifespan(fs)
    /\ app' = "idle"
    /\ UNCHANGED <<mergeVars, request, temp_graph, reply>>

\* A client posts a query.
Receive(req) ==
    /\ app = "idle"
    /\ request' = req
    /\ app' = "handling"
    /\ UNCHANGED <<mergeVars, G, temp_graph, reply>>

\* Lines 185-261.
ShortestPath ==
    /\ app = "handling"
    /\ request.endpoint = "/shortest_path"
    /\ reply' = shortest_path(G, request)
    /\ app' = "replied"
    /\ UNCHANGED <<mergeVars, G, request, temp_graph>>

\* Lines 280-391.
ShortestPathShadeAware ==
    /\ app = "handling"
    /\ request.endpoint = "/shortest_path_shade"
    /\ LET done == shortest_path_shade_aware(G, request)
       IN  /\ G' = done.G
           /\ temp_graph' = done.temp_graph
           /\ reply' = done.reply
    /\ app' = "replied"
    /\ UNCHANGED <<mergeVars, request>>

\* The reply is sent and the server waits for the next query.
Respond ==
    /\ app = "replied"
    /\ app' = "idle"
    /\ request' = None
    /\ temp_graph' = NoGraph
    /\ reply' = None
    /\ UNCHANGED <<mergeVars, G>>

InitRoute ==
    /\ fs \in FileSystems
    /\ clock = 0
    /\ pc = [p \in Procs |-> "idle"]
    /\ args = [p \in Procs |-> None]
    /\ graph = [p \in Procs |-> None]
    /\ shade_data = [p \in Procs |-> None]
    /\ enhanced_graph = [p \in Procs |-> None]
    /\ response = [p \in Procs |-> None]
    /\ rc = [p \in Procs |-> None]
    /\ fs0 = [p \in Procs |-> None]
    /\ G = NoGraph
    /\ app = "starting"
    /\ request = None
    /\ temp_graph = NoGraph
    /\ reply = None

NextRoute ==
    \/ Lifespan
    \/ \E req \in NearestNodeRequests \cup ShortestPathRequests
                    \cup ShadeAwarePathRequests \cup GraphEdgesRequests :
           Receive(req)
    \/ NearestNode
    \/ GetGraphEdges
    \/ DownloadGraphEdges
    \/ ShortestPath
    \/ ShortestPathShadeAware
    \/ Respond

SpecRoute == InitRoute /\ [][NextRoute]_vars

-----------------------------------------------------------------------------
(* What the claims about the queries speak of                              *)

\* G as lifespan() loaded it.
LoadedGraph == lifespan(fs)

Replied(endpoint) == app = "replied" /\ request.endpoint = endpoint

HasPath(r) == "path" \in DOMAIN r

\* The standard query between the end points of the query being handled.
StandardRequest ==
    [endpoint |-> "/shortest_path",
     start_lat |-> request.start_lat, start_lng |-> request.start_lng,
     end_lat |-> request.end_lat, end_lng |-> request.end_lng]

\* The same query as the one being handled, asked for one daylight hour.
DaylightReply(hour) ==
    shortest_path_shade_aware(G, [request EXCEPT !.time = Some(hour)]).reply

\* C1: route queries never change G: at every point G is the graph
\* lifespan() loaded, node for node, edge for edge and attribute for
\* attribute, and no edge of G carries 'shade_aware_weight'.
C1_QueriesLeaveGraph ==
    app \in {"idle", "handling", "replied"} =>
        /\ G = LoadedGraph
        /\ G # NoGraph =>
              \A e \in DOMAIN G.data :
                  "shade_aware_weight" \notin DOMAIN G.data[e]

\* A daylight shade-aware query has been answered with a path, which means
\* the handler copied G and wrote shade_aware_weight into the copy.
C1_Witness ==
    /\ Replied("/shortest_path_shade")
    /\ HasPath(reply)
    /\ reply.shade_mode = "daylight"
    /\ reply.num_segments > 0

\* C2: for a night hour (h <= 6 or h >= 19) the shade-aware query returns
\* the path and the distance the standard query returns between the same
\* end points on the same graph, whatever shade_penalty is supplied; when
\* the standard query finds no path, it returns the same error.
C2_NightIsStandard ==
    (/\ Replied("/shortest_path_shade")
     /\ request.time # Null
     /\ (request.time[1] <= 6 \/ request.time[1] >= 19)) =>
        LET standard == shortest_path(G, StandardRequest)
        IN  IF HasPath(standard)
            THEN /\ HasPath(reply)
                 /\ "total_distance_m" \in DOMAIN reply
                 /\ reply.path = standard.path
                 /\ reply.total_distance_m = standard.total_distance_m
            ELSE reply = standard

\* A night query with a positive penalty has been answered with a path on a
\* graph where the same query by day takes another path.
C2_Witness ==
    /\ Replied("/shortest_path_shade")
    /\ request.time # Null
    /\ request.time[1] >= 19
    /\ request.shade_penalty # Null
    /\ request.shade_penalty[1] > 0
    /\ HasPath(reply)
    /\ HasPath(DaylightReply(12))
    /\ DaylightReply(12).path # reply.path

-----------------------------------------------------------------------------
(* The hours list of the graph-level metadata                              *)

\* graph.graph['shade_analysis_hours'] of a stored graph, [] when absent.
HoursPresent(g) == DictGet(g.graph, "shade_analysis_hours", <<>>)

StrictlyIncreasing(list) ==
    \A i \in 1..(Len(list) - 1) : list[i] < list[i + 1]

\* C11: after any sequence of merges the hours list of every stored graph
\* is strictly increasing and holds only hours of 0..23, and the graph a
\* merge has saved lists the hour of that merge and every hour its input
\* graph listed.
C11_HoursListSorted ==
    /\ \A path \in Paths :
           fs[path] # NoFile =>
               LET hours == HoursPresent(Unpickled(fs[path]))
               IN  /\ StrictlyIncreasing(hours)
                   /\ \A i \in 1..Len(hours) : hours[i] \in Hours
    /\ \A p \in Procs :
           Saved(p) =>
               LET hours == HoursPresent(OutputGraph(p))
               IN  /\ InSeq(hours, args[p].hour)
                   /\ \A i \in 1..Len(HoursPresent(InputGraph(p))) :
                          InSeq(hours, HoursPresent(InputGraph(p))[i])

\* A merge of an hour earlier than the one its input graph lists has been
\* saved: the new hour had to go in front.
C11_Witness ==
    \E p \in Procs :
        /\ Saved(p)
        /\ Len(HoursPresent(InputGraph(p))) > 0
        /\ args[p].hour < HoursPresent(InputGraph(p))[1]
        /\ Len(HoursPresent(OutputGraph(p))) = 2

-----------------------------------------------------------------------------
(* The weights of the shade-aware search                                   *)

\* A daylight shade-aware query has been handled as far as the search: the
\* handler made its copy of G and weighted it (with a null penalty it makes
\* the copy and fails on the first weight).
Searched ==
    /\ app = "replied"
    /\ temp_graph # NoGraph
    /\ request.shade_penalty # Null

\* The shade length the daylight formula is to use for an edge at hour h.
ShadeLengthFor(attrs, h) ==
    IF LengthKey(h) \in DOMAIN attrs THEN attrs[LengthKey(h)]
    ELSE IF LengthKey(9) \in DOMAIN attrs THEN attrs[LengthKey(9)]
    ELSE 0

C13_SearchWeightsNonNegative ==
    Searched =>
        \A e \in DOMAIN temp_graph.data :
            temp_graph.data[e]["shade_aware_weight"] >= 0

-----------------------------------------------------------------------------
(* The paths and distances of the replies                                  *)

\* The node path of a reply: its [lat, lng] pairs back as (lon, lat) nodes.
PathNodes(r) == [i \in 1..Len(r.path) |-> <<r.path[i][2], r.path[i][1]>>]

\* Whether every two consecutive nodes of a path are joined by an edge.
FollowsEdges(g, nodes) ==
    \A i \in 1..(Len(nodes) - 1) : {nodes[i], nodes[i + 1]} \in DOMAIN g.data

\* The sum of the `weight` attribute over the edges of a path, from its
\* i-th edge on.
RECURSIVE PathSum(_, _, _, _)
PathSum(g, nodes, weight, i) ==
    IF i > Len(nodes) - 1 THEN 0
    ELSE g.data[{nodes[i], nodes[i + 1]}][weight]
         + PathSum(g, nodes, weight, i + 1)

\* C15: for every query that returns a path the reported distance is the
\* sum, over the consecutive node pairs of that path, of the weights the
\* query used: base weights for total_distance_m, shade-aware weights for
\* the shade_aware_distance_m of a daylight query.
C15_DistanceIsPathSum ==
    (app = "replied" /\ HasPath(reply)) =>
        IF reply.shade_mode = "daylight"
        THEN /\ FollowsEdges(temp_graph, PathNodes(reply))
             /\ reply.shade_aware_distance_m =
                    PathSum(temp_graph, PathNodes(reply),
                            "shade_aware_weight", 1)
        ELSE /\ FollowsEdges(G, PathNodes(reply))
             /\ reply.total_distance_m =
                    PathSum(G, PathNodes(reply), "weight", 1)

\* The costs of the simple paths from u to t that avoid `visited`.
RECURSIVE SimplePathCosts(_, _, _, _, _)
SimplePathCosts(g, weight, u, t, visited) ==
    IF u = t THEN {0}
    ELSE UNION {{g.data[{u, g.adj[u][j]}][weight] + c :
                    c \in SimplePathCosts(g, weight, g.adj[u][j], t,
                                          visited \cup {g.adj[u][j]})} :
                j \in {k \in 1..Len(g.adj[u]) : g.adj[u][k] \notin visited}}

\* No simple path from s to t costs less than `cost`.
IsMinimalCost(g, weight, s, t, cost) ==
    \A c \in SimplePathCosts(g, weight, s, t, {s}) : cost <= c

\* The nodes the query being handled resolves its two points to.
ResolvedStart == find_nearest_node(G, request.start_lat, request.start_lng)

ResolvedEnd == find_nearest_node(G, request.end_lat, request.end_lng)

\* The line graph A(0,0) - B(0,1) - C(0,2) with weights 10 and 10.
LineGraph ==
    build_graph_segments(
        <<[a |-> <<0, 0>>, b |-> <<0, 1>>, length_m |-> 10],
          [a |-> <<0, 1>>, b |-> <<0, 2>>, length_m |-> 10]>>)

\* C16: the node path a route query returns starts at the resolved start
\* node, ends at the resolved end node, follows only edges of the graph
\* and costs no more than any path between the two nodes under the weight
\* of the query (base weight, or shade-aware weight in daylight); on the
\* line graph A - B - C with weights 10 and 10 the standard query from A
\* to C returns [A, B, C] and distance 20.
C16_PathIsShortest ==
    /\ (app = "replied" /\ HasPath(reply)) =>
           LET nodes == PathNodes(reply)
               daylight == reply.shade_mode = "daylight"
               g == IF daylight THEN temp_graph ELSE G
               weight == IF daylight THEN "shade_aware_weight" ELSE "weight"
           IN  /\ nodes[1] = ResolvedStart
               /\ nodes[Len(nodes)] = ResolvedEnd
               /\ FollowsEdges(g, nodes)
               /\ IsMinimalCost(g, weight, ResolvedStart, ResolvedEnd,
                                PathSum(g, nodes, weight, 1))
    /\ app = "starting" =>
           LET r == shortest_path(LineGraph,
                        [start_lat |-> 0, start_lng |-> 0,
                         end_lat |-> 2, end_lng |-> 0])
           IN  /\ r.path = <<<<0, 0>>, <<1, 0>>, <<2, 0>>>>
               /\ r.total_distance_m = 20

\* Whether some path joins s and t in g.
Connected(g, s, t) == SimplePathCosts(g, "weight", s, t, {s}) # {}

\* A route query has been answered after a path search: a standard query,
\* a shade-aware query at night, or a daylight one that got to its search.
SearchRan ==
    /\ app = "replied"
    /\ G # NoGraph
    /\ \/ request.endpoint = "/shortest_path"
       \/ /\ request.endpoint = "/shortest_path_shade"
          /\ request.time # Null
          /\ (is_night(request.time[1]) \/ Searched)
    /\ ResolvedStart # NoNode
    /\ ResolvedEnd # NoNode

\* C17: when the resolved start and end nodes lie in different connected
\* components, the standard and the shade-aware query both return the
\* 'no path found' error, and never a path.
C17_DisconnectedIsNoPath ==
    (SearchRan /\ ~Connected(G, ResolvedStart, ResolvedEnd)) =>
        reply = [error |-> "No path found between the points"]

-----------------------------------------------------------------------------
(* Nearest-node resolution                                                 *)

\* The distance from the point of the query being handled to node n.
DistanceTo(n) == GeodDistance(request.lng, request.lat, n[1], n[2])

\* The place of node n in the iteration order of G.nodes().
NodeIndex(n) == CHOOSE k \in 1..Len(G.nodes) : G.nodes[k] = n

\* C18: on a graph with at least one node the nearest-node query returns a
\* node of the graph no farther from the query point than any other node,
\* and every node that comes before it in the iteration order of the nodes
\* is strictly farther; the same call on the unchanged graph returns the
\* same node.
C18_NearestNodeIsFirstNearest ==
    (Replied("/nearest_node") /\ G # NoGraph /\ Len(G.nodes) > 0) =>
        /\ "node_id" \in DOMAIN reply
        /\ InSeq(G.nodes, reply.node_id)
        /\ \A k \in 1..Len(G.nodes) :
               /\ DistanceTo(reply.node_id) <= DistanceTo(G.nodes[k])
               /\ k < NodeIndex(reply.node_id) =>
                      DistanceTo(reply.node_id) < DistanceTo(G.nodes[k])
        /\ reply.node_id = find_nearest_node(G, request.lat, request.lng)
        /\ reply.nearest_node = <<reply.node_id[2], reply.node_id[1]>>

\* The query point is as near to a later node of the graph as to the node
\* returned.
C18_Witness ==
    /\ Replied("/nearest_node")
    /\ "node_id" \in DOMAIN reply
    /\ \E k \in 1..Len(G.nodes) :
           /\ k > NodeIndex(reply.node_id)
           /\ DistanceTo(G.nodes[k]) = DistanceTo(reply.node_id)

\* C19: when the loaded graph has no nodes, the nearest-node query returns
\* the 'no nearest node' error and the two route queries return an error:
\* no node is resolved, no search is run and nothing is raised.
C19_EmptyGraphIsAnError ==
    (app = "replied" /\ G # NoGraph /\ Len(G.nodes) = 0) =>
        /\ temp_graph = NoGraph
        /\ CASE request.endpoint = "/nearest_node" ->
                    reply = [error |-> "No nearest node found"]
             [] request.endpoint = "/shortest_path" ->
                    reply = [error |-> "Could not find nearest nodes"]
             [] request.endpoint = "/shortest_path_shade" ->
                    /\ "error" \in DOMAIN reply
                    /\ request.time # Null =>
                          IF is_night(request.time[1])
                          THEN reply = [error |-> "Could not find nearest nodes"]
                          ELSE reply = [error |-> "No edges available in graph"]
             [] OTHER -> TRUE

\* A daylight shade-aware query has been answered on a graph without
\* nodes.
C19_Witness ==
    /\ Replied("/shortest_path_shade")
    /\ request.time # Null
    /\ ~is_night(request.time[1])
    /\ G # NoGraph
    /\ Len(G.nodes) = 0
    /\ "error" \in DOMAIN reply

\* The load at startup fails: the file lifespan() opens is missing or
\* malformed.
StartupFails ==
    \/ fs[ENHANCED] = Malformed
    \/ fs[ENHANCED] = NoFile /\ fs[ORIGINAL] \in {NoFile, Malformed}

GraphNotLoaded == [error |-> "Graph not loaded"]

\* C20: when the load at startup fails, the server comes up with G None
\* and keeps it None over every sequence of queries, and every reply of a
\* graph-dependent endpoint (nearest node, standard route, shade-aware
\* route at any hour, edge export, edge download) is the 'Graph not loaded'
\* error; the download carries it as the content of its response.
C20_NoGraphRejectsQueries ==
    StartupFails /\ app # "starting" =>
        /\ G = NoGraph
        /\ temp_graph = NoGraph
        /\ app = "replied" =>
              IF request.endpoint = "/graph/edges/download"
              THEN reply.content = GraphNotLoaded
              ELSE reply = GraphNotLoaded

\* C20 happens: the enhanced file is malformed beside a good original, and
\* a daylight shade-aware query is answered with the error.
C20_Witness ==
    /\ fs[ENHANCED] = Malformed
    /\ fs[ORIGINAL] = Pickled(BaseGraph)
    /\ Replied("/shortest_path_shade")
    /\ request.time # Null
    /\ ~ is_night(request.time[1])
    /\ reply = GraphNotLoaded

-----------------------------------------------------------------------------
(* Faults                                                                  *)

RouteEndpoints == {"/shortest_path", "/shortest_path_shade"}

\* C21: every route query is answered with a route result or with an error
\* object, and never with an exception that leaves the handler, for every
\* request the request models accept: a null hour, a null penalty, an hour
\* outside 0..23, the same point for start and end.
C21_RouteQueriesNeverFault ==
    (app = "replied" /\ request.endpoint \in RouteEndpoints) =>
        /\ "unhandled" \notin DOMAIN reply
        /\ HasPath(reply) \/ "error" \in DOMAIN reply

-----------------------------------------------------------------------------
(* The branches of a daylight query                                        *)

\* A shade-aware query for a daylight hour has been answered by a server
\* that has a graph.
DaylightReplied ==
    /\ Replied("/shortest_path_shade")
    /\ G # NoGraph
    /\ request.time # Null
    /\ ~is_night(request.time[1])

ShadeDataUnavailable(hour) ==
    [error |-> "Shade data not available for " \o ToString(hour)
               \o ":00 or fallback 9:00 - use /shortest_path instead"]

\* The query went on to route with the records of hour h: the nearest
\* nodes were resolved and the copy made; every weight written into the
\* copy comes from the hour-h shade length of its edge, and the shade
\* length reported for a path is the sum of those of its edges.
RoutedWithHour(h) ==
    /\ temp_graph # NoGraph
    /\ request.shade_penalty # Null =>
          \A e \in DOMAIN temp_graph.data :
              LET attrs == temp_graph.data[e]
              IN  /\ LengthKey(h) \in DOMAIN attrs
                  /\ attrs["shade_aware_weight"]
                     = attrs["weight"]
                       + (attrs["weight"] - attrs[LengthKey(h)])
                         * request.shade_penalty[1]
    /\ HasPath(reply) =>
          reply.total_shade_length_m
          = PathSum(temp_graph, PathNodes(reply), LengthKey(h), 1)

\* What the three branches say of the query being answered.
ThreeBranches ==
    LET hour == request.time[1]
    IN  IF HasHourData(G, hour) THEN RoutedWithHour(hour)
        ELSE IF HasHourData(G, 9) THEN RoutedWithHour(9)
        ELSE /\ reply = ShadeDataUnavailable(hour)
             /\ temp_graph = NoGraph

\* C22 as stated: a daylight query takes one of three branches, decided by
\* the shade records present: with hour-H records it routes with them;
\* without them but with hour-9 records it routes with those; without both
\* it returns the error that points to the standard query, and computes no
\* path and resolves no node.
C22_DaylightThreeBranches == DaylightReplied => ThreeBranches

\* C22 amended: the same on a graph that has an edge; on a graph without
\* edges the query returns the 'No edges available in graph' error, and
\* likewise computes no path and resolves no node.
C22_DaylightBranchesWithEdges ==
    DaylightReplied =>
        IF number_of_edges(G) = 0
        THEN /\ reply = [error |-> "No edges available in graph"]
             /\ temp_graph = NoGraph
        ELSE ThreeBranches

\* The fall-back branch happens: a query for hour 7 on a graph that has
\* hour-9 records and none of hour 7 is answered with a path that has a
\* shaded length.
C22_Witness ==
    /\ DaylightReplied
    /\ request.time[1] = 7
    /\ ~HasHourData(G, 7)
    /\ HasHourData(G, 9)
    /\ HasPath(reply)
    /\ reply.total_shade_length_m > 0

-----------------------------------------------------------------------------
(* The shade percentage                                                    *)

\* Some record stored in g is out of range: a shade length below zero or
\* above the base weight of its edge.
RecordsOutOfRange(g) ==
    \E e \in DOMAIN g.data :
        \E h \in Hours :
            /\ LengthKey(h) \in DOMAIN g.data[e]
            /\ \/ g.data[e][LengthKey(h)] < 0
               \/ g.data[e][LengthKey(h)] > g.data[e]["weight"]

\* C23: a route result that carries shade_percentage has it within
\* [0, 100] when the base length of the returned path is positive, and 0
\* when that length is 0; the percentage counts in tenths.
C23_ShadePercentageInRange ==
    (/\ app = "replied"
     /\ request.endpoint \in RouteEndpoints
     /\ "shade_percentage" \in DOMAIN reply) =>
        LET total_path_length == PathSum(G, PathNodes(reply), "weight", 1)
        IN  IF total_path_length > 0
            THEN reply.shade_percentage >= 0 /\ reply.shade_percentage <= 1000
            ELSE reply.shade_percentage = 0

-----------------------------------------------------------------------------
(* The outcome of the search                                               *)

NoPathFound == [error |-> "No path found between the points"]

\* C24: every route query that gets to its search ends in one of two ways,
\* whatever weights the query gave the edges: the search reaches the goal
\* and the query returns a path, or the search runs out of frontier and
\* the query returns the 'no path found' error.
C24_SearchEndsInPathOrNoPath ==
    SearchRan => HasPath(reply) \/ reply = NoPathFound

-----------------------------------------------------------------------------
(* An hour is on every edge or on none                                     *)

\* The key sets of the attribute dicts of the edges of g.
AttrKeys(g) == {DOMAIN g.data[e] : e \in DOMAIN g.data}

\* Hour h is on every edge or on none, given the key sets of the edges.
AllOrNone(keysets, h) ==
    LET keys == HourKeys(h)
    IN  \/ \A d \in keysets : keys \subseteq d
        \/ \A d \in keysets : keys \cap d = {}

\* The availability test of the merge (lines 77-78) and of the route
\* queries (app.py lines 214-215, 304-311): the first edge alone.
FirstEdgeHasHour(first, h) ==
    first # <<>> /\ FractionKey(h) \in first[1]

\* Some edge carries a key of hour h.
SomeEdgeHasHour(keysets, h) ==
    \E d \in keysets : HourKeys(h) \cap d # {}

SamplingIsSound(g) ==
    LET keysets == AttrKeys(g)
        edges == Edges(g)
        first == IF edges = <<>> THEN <<>> ELSE <<DOMAIN Attrs(g, edges[1])>>
    IN  \A h \in Hours :
            /\ AllOrNone(keysets, h)
            /\ FirstEdgeHasHour(first, h) <=> SomeEdgeHasHour(keysets, h)

\* C25: from the built graph, which has no shade records, after any
\* sequence of merges, proceeding, overwriting or aborted, every hour is on
\* every edge or on none, in every stored artifact and in every graph a
\* merge returned; so the test on the first edge answers as a test on
\* every edge would.
C25_HoursAllOrNone ==
    /\ \A path \in Paths :
           fs[path] # NoFile => SamplingIsSound(Unpickled(fs[path]))
    /\ \A p \in Procs :
           Merged(p) => SamplingIsSound(enhanced_graph[p])

\* A merge whose analysis names some edges and not others has proceeded and
\* saved: the edges it does not name got the default record.
C25_Witness ==
    /\ Saved(1)
    /\ Proceeded(1)
    /\ \E i \in 1..EdgeCount(1) : NamedInAnalysis(1, i)
    /\ \E i \in 1..EdgeCount(1) :
           /\ ~NamedInAnalysis(1, i)
           /\ HasRecord(SavedAttrs(1, i), args[1].hour)

-----------------------------------------------------------------------------
(* The hours the metadata lists and the hours the edges carry               *)

\* C26: from a built graph, which has no shade records and no metadata,
\* after any sequence of merge runs the list of hours in the metadata of
\* every stored artifact agrees with its edges: hour h is in the list if
\* and only if the edges carry hour-h records.
C26_MetadataAgreesWithEdges ==
    \A path \in Paths :
        fs[path] # NoFile =>
            LET g == Unpickled(fs[path])
            IN  \A h \in Hours :
                    InSeq(HoursPresent(g), h) <=> HasHourData(g, h)

-----------------------------------------------------------------------------
(* The edge ids of the export and of the merge                             *)

\* One of the two exports has been answered by a server that has a graph.
ExportReplied ==
    /\ app = "replied"
    /\ request.endpoint \in {"/graph/edges", "/graph/edges/download"}
    /\ G # NoGraph

\* The edge list of the export being answered.
ExportedList ==
    IF request.endpoint = "/graph/edges/download"
    THEN reply.content.edges ELSE reply.edges

\* What the producer of the analysis finds for the i-th entry of an export.
ProducedLevel(i) == ShadeLevels[(i % Len(ShadeLevels)) + 1]

\* The analysis the producer makes of an export: one entry for each edge of
\* the export, under the id the export gave it.
ProducedAnalysis(exported) ==
    [edges |-> [i \in 1..Len(exported) |->
                   ("id" :> exported[i].id) @@ ProducedLevel(i)],
     analysisTime |-> "t",
     processingTimeMs |-> 0]

\* An hour of the command lines that no artifact of the server has
\* records of.
ProbeHour == CHOOSE h \in ArgHours \cap Hours : h # 9

\* The graph edge an export entry describes.
EntryEdge(entry) ==
    {<<entry.a.lng, entry.a.lat>>, <<entry.b.lng, entry.b.lat>>}

\* C27: the edge id is positional and the same in the export and in the
\* merge of one artifact: the merge's copy lists the edges in the order of
\* the loaded graph; a merge of the analysis made from an export writes the
\* values of entry 'edge_i' on the edge the export calls 'edge_i', and the
\* defaults on the edges the export left out; and a size-capped export is
\* the first `limit` entries of the full one, ids included.
C27_EdgeIdsAgree ==
    ExportReplied =>
        LET full == get_graph_edges(G, NoLimit).edges
            got == ExportedList
            limit == request.limit
            merged == main(G, ProducedAnalysis(got), ProbeHour, None, 1)
        IN  /\ Edges(GraphCopy(G).value) = Edges(G)
            /\ Len(got) = IF limit # NoLimit /\ limit[1] > 0
                             /\ limit[1] < Len(full)
                          THEN limit[1] ELSE Len(full)
            /\ got = SubSeq(full, 1, Len(got))
            /\ \A i \in 1..Len(full) :
                   LET attrs == merged.data[EntryEdge(full[i])]
                       level == IF i <= Len(got) THEN ProducedLevel(i)
                                ELSE [shadePct |-> 0, shaded |-> FALSE,
                                      nSamples |-> 0]
                   IN  /\ full[i].id = EdgeName(i)
                       /\ attrs[FractionKey(ProbeHour)] = level.shadePct
                       /\ attrs[SamplesKey(ProbeHour)] = level.nSamples
                       /\ attrs[ShadedKey(ProbeHour)] = level.shaded

\* A size-capped export has been answered: one entry of a graph that has
\* more edges.
C27_Witness ==
    /\ ExportReplied
    /\ request.limit = Limit(1)
    /\ Len(ExportedList) = 1
    /\ number_of_edges(G) > 1

-----------------------------------------------------------------------------
(* What a merge leaves alone                                               *)

\* Graph `out` is graph `g` but for the hour-h attributes of its edges: the
\* same nodes, the same edges in the same order, and on every edge every
\* attribute that is not one of the four of hour h, present or absent and
\* with its value.
SameButHour(out, g, h) ==
    /\ out.nodes = g.nodes
    /\ DOMAIN out.data = DOMAIN g.data
    /\ Edges(out) = Edges(g)
    /\ \A e \in DOMAIN g.data :
           LET before == g.data[e]
               after == out.data[e]
           IN  /\ DOMAIN after \ HourKeys(h) = DOMAIN before \ HourKeys(h)
               /\ \A k \in DOMAIN before \ HourKeys(h) : after[k] = before[k]

\* C28: a merge for hour H changes nothing but hour-H shade attributes:
\* the graph it returns and the graph it saves have the nodes and the
\* edges of the input graph, and on every edge its weight, its geometry
\* and every attribute that is not of hour H, whether the merge proceeds,
\* overwrites or aborts.
C28_MergeKeepsBaseGraph ==
    \A p \in Procs :
        /\ Merged(p) =>
              SameButHour(enhanced_graph[p], InputGraph(p), args[p].hour)
        /\ Saved(p) =>
              SameButHour(OutputGraph(p), InputGraph(p), args[p].hour)

\* A merge has overwritten the records of an hour with other values and
\* saved: the input had records of that hour and the output differs.
C28_Witness ==
    /\ Saved(1)
    /\ Proceeded(1)
    /\ HasHourData(InputGraph(1), args[1].hour)
    /\ OutputGraph(1).data # InputGraph(1).data

-----------------------------------------------------------------------------
(* The three distances of a daylight result                                *)

\* A daylight shade-aware query has been answered with a path.
DaylightResult ==
    /\ Replied("/shortest_path_shade")
    /\ HasPath(reply)
    /\ reply.shade_mode = "daylight"

\* The sum of the base weights along the path of the reply.
BaseLengthOfPath == PathSum(G, PathNodes(reply), "weight", 1)

\* C29: in a daylight result with a penalty that is not negative, on a
\* graph whose shade lengths all lie between 0 and the base weight,
\* original_distance_m <= the base length of the returned path
\* <= shade_aware_distance_m, so the difference the result reports is not
\* negative.
C29_DistancesOrdered ==
    (/\ DaylightResult
     /\ request.shade_penalty[1] >= 0
     /\ ~RecordsOutOfRange(G)) =>
        /\ reply.original_distance_m <= BaseLengthOfPath
        /\ BaseLengthOfPath <= reply.shade_aware_distance_m
        /\ reply.shade_penalty_added_m >= 0

\* The returned path is not the shortest by base weight: the shortest one
\* lies in the sun and the penalty sends the route round it.
C29_Witness ==
    /\ DaylightResult
    /\ request.shade_penalty[1] > 0
    /\ ~RecordsOutOfRange(G)
    /\ reply.original_distance_m < BaseLengthOfPath
    /\ reply.shade_penalty_added_m > 0

-----------------------------------------------------------------------------
(* A penalty of 0                                                          *)

\* C30: with shade_penalty = 0 a daylight shade-aware query ignores shade:
\* every shade-aware edge weight of the searched copy equals the base
\* weight, and a result has shade_aware_distance_m = original_distance_m,
\* a difference of 0 and the distance of the standard query between the
\* same end points, whatever shade records the graph stores.
C30_ZeroPenaltyIgnoresShade ==
    /\ (/\ Searched
        /\ request.shade_penalty = Some(0)) =>
           \A e \in DOMAIN temp_graph.data :
               temp_graph.data[e]["shade_aware_weight"]
                   = temp_graph.data[e]["weight"]
    /\ (/\ DaylightResult
        /\ request.shade_penalty = Some(0)) =>
           /\ reply.shade_aware_distance_m = reply.original_distance_m
           /\ reply.shade_penalty_added_m = 0
           /\ LET standard == shortest_path(G, StandardRequest)
              IN  /\ HasPath(standard)
                  /\ reply.shade_aware_distance_m = standard.total_distance_m

\* A result of several segments at penalty 0 on a graph that stores both
\* shade and sun for the hour of the query.
C30_Witness ==
    /\ DaylightResult
    /\ request.shade_penalty = Some(0)
    /\ reply.num_segments >= 2
    /\ reply.original_distance_m > 0
    /\ \E e \in DOMAIN temp_graph.data :
           ShadeLengthFor(temp_graph.data[e], request.time[1]) > 0
    /\ \E e \in DOMAIN temp_graph.data :
           ShadeLengthFor(temp_graph.data[e], request.time[1])
               # temp_graph.data[e]["weight"]

====
